---- MODULE Spec2Model ----
(***************************************************************************)
(* The memfs inode (samples/memfs/inode.go): one node that is either a     *)
(* directory (a table of Dirents with stable offsets) or a file (a byte    *)
(* slice), guarded by an InvariantMutex whose check runs when an exclusive *)
(* acquisition is released.  One action is one locked operation: Lock, the *)
(* method body, Unlock with checkInvariants.  A panic halts the process.   *)
(***************************************************************************)
EXTENDS Integers, Sequences, FiniteSets, TLC

\* ---------------------------------------------------------------- bounds
\* Longest entries slice the model lets AddChild grow to.
MaxEntries == 3
\* Largest value of the clock.
MaxClock == 1
\* Longest file the model lets WriteAt / SetAttributes produce.
MaxLen == 3
\* Largest size argument of ReadDir.
MaxBytes == 5
\* Most AddChild / RemoveChild calls interleaved with one readdir loop.
MaxMuts == 2

\* ------------------------------------------------------------ input sets
Names == {"", "a", "b"}
InodeIDs == {1, 2}
\* The (id, name) pairs AddChild is called with.
Children == {<<1, "">>, <<1, "a">>, <<2, "a">>, <<2, "b">>}
\* The explicit mtime SetAttributes is called with.
MtimeArgs == {7}
DT_Unknown == "DT_Unknown"
DT_File == "DT_File"
DirentTypes == {DT_File}
Bytes == {0, 1}
\* os.FileMode as the set of its bits: one permission bit, os.ModeDir, and
\* one bit that is neither (os.ModeSymlink).
ModePerm == {"perm"}
ModeDir == {"ModeDir"}
ModeSymlink == {"ModeSymlink"}
CtorModes == {ModePerm, ModePerm \cup ModeDir, ModePerm \cup ModeSymlink}

Min(a, b) == IF a < b THEN a ELSE b
Max(a, b) == IF a > b THEN a ELSE b
Zeros(n) == [j \in 1..n |-> 0]

VARIABLES
  dir,        \* inode.dir
  linkCount,  \* inode.linkCount
  attributes, \* inode.attributes: [Size, Mode, Mtime, Crtime]
  entries,    \* inode.entries; the nil slice is the empty sequence
  contents,   \* inode.contents: [arr, len], arr the backing array (cap = Len(arr))
  now,        \* what inode.clock.Now() returns
  panicked,   \* "" while the process runs, else the panic's message
  ctor,       \* the attrs newInode was called with
  last,       \* the last operation: its name, arguments and results
  pg,         \* a readdir loop of a client of ReadDir
  abs         \* history: the names added and not since removed, whether every
              \* call so far met its requirement on the name, and the largest
              \* Len() so far

vars == <<dir, linkCount, attributes, entries, contents, now, panicked, ctor, last, pg, abs>>

\* -------------------------------------------------------------- slices
\* []byte with its backing array: the nil slice is [arr |-> <<>>, len |-> 0].
NilBytes == [arr |-> <<>>, len |-> 0]
\* The visible bytes of a slice, s[0:len(s)].
Data(s) == SubSeq(s.arr, 1, s.len)

\* s[:n] for n <= len(s): the array is kept, only the length changes.
Reslice(s, n) == [arr |-> s.arr, len |-> n]

\* A re-slice up to n that leaves the array's old bytes in place.
AppendPaddingStale(s, n) ==
  IF s.len + n <= Len(s.arr)
  THEN [arr |-> s.arr, len |-> s.len + n]
  ELSE [arr |-> Data(s) \o Zeros(n), len |-> s.len + n]

\* append(s, make([]byte, n)...): within capacity the zeros are copied over
\* the array in place; beyond it a new array holds s[0:len] and the zeros
\* (spare capacity of a new array is zeroed memory, so it is taken as none).
AppendPadding(s, n) ==
  IF n = 0 THEN s
  ELSE IF s.len + n <= Len(s.arr)
  THEN [arr |-> [j \in 1..Len(s.arr) |->
                   IF j > s.len /\ j <= s.len + n THEN 0 ELSE s.arr[j]],
        len |-> s.len + n]
  ELSE [arr |-> Data(s) \o Zeros(n), len |-> s.len + n]

\* copy(s[off:], p) for off + len(p) <= len(s).
CopyAt(s, off, p) ==
  [arr |-> [j \in 1..Len(s.arr) |->
              IF j > off /\ j <= off + Len(p) THEN p[j - off] ELSE s.arr[j]],
   len |-> s.len]

\* ------------------------------------------------------ checkInvariants
HasDuplicate(ents) ==
  \E i, j \in 1..Len(ents) :
    /\ i < j
    /\ ents[i].Type # DT_Unknown
    /\ ents[j].Type # DT_Unknown
    /\ ents[i].Name = ents[j].Name

\* The check without its file-specific part.
checkInvariantsNoFilePart(d, lc, attr, ents, cont) ==
  IF lc < 0 THEN "Negative link count"
  ELSE IF attr.Mode \ (ModePerm \cup ModeDir) # {} THEN "Unexpected mode"
  ELSE IF d # (ModeDir \subseteq attr.Mode) THEN "Unexpected mode, dir"
  ELSE IF d /\ cont.arr # <<>> THEN "Non-nil contents in a directory."
  ELSE IF d /\ \E i \in 1..Len(ents) : ents[i].Offset # i
       THEN "Unexpected offset"
  ELSE IF d /\ HasDuplicate(ents) THEN "Duplicate name"
  ELSE IF attr.Size # cont.len THEN "Unexpected size"
  ELSE ""

\* The message checkInvariants panics with, "" when it returns.
checkInvariants(d, lc, attr, ents, cont) ==
  IF lc < 0 THEN "Negative link count"
  ELSE IF attr.Mode \ (ModePerm \cup ModeDir) # {} THEN "Unexpected mode"
  ELSE IF d # (ModeDir \subseteq attr.Mode) THEN "Unexpected mode, dir"
  ELSE IF d /\ cont.arr # <<>> THEN "Non-nil contents in a directory."
  ELSE IF d /\ \E i \in 1..Len(ents) : ents[i].Offset # i
       THEN "Unexpected offset"
  ELSE IF d /\ HasDuplicate(ents) THEN "Duplicate name"
  ELSE IF ~d /\ ents # <<>> THEN "Non-nil entries in a file."
  ELSE IF attr.Size # cont.len THEN "Unexpected size"
  ELSE ""

\* ------------------------------------------------------------ newInode
\* A node that starts with no link.
newInodeNoLink(attrs) ==
  /\ dir = (ModeDir \subseteq attrs.Mode)
  /\ linkCount = 0
  /\ attributes = [Size |-> attrs.Size, Mode |-> attrs.Mode,
                   Mtime |-> now, Crtime |-> now]
  /\ entries = <<>>
  /\ contents = NilBytes
  /\ panicked = ""
  /\ ctor = attrs
  /\ last = [op |-> "newInode"]

newInode(attrs) ==
  /\ dir = (ModeDir \subseteq attrs.Mode)
  /\ linkCount = 1
  /\ attributes = [Size |-> attrs.Size, Mode |-> attrs.Mode,
                   Mtime |-> now, Crtime |-> now]
  /\ entries = <<>>
  /\ contents = NilBytes
  /\ panicked = ""
  /\ ctor = attrs
  /\ last = [op |-> "newInode"]

PgIdle == [phase |-> "idle"]

AbsInit == [names |-> {}, ok |-> TRUE, hw |-> 0]

Init ==
  /\ now = 0
  /\ pg = PgIdle
  /\ abs = AbsInit
  /\ \E size \in {0, 1}, mode \in CtorModes :
       newInode([Size |-> size, Mode |-> mode])

\* ------------------------------------------------------------ directory
\* 0-based index and ok of findChild's loop: the first entry with the name,
\* whatever its type; without one, i is left at the last index ranged over.
findChild(ents, name) ==
  IF \E k \in 1..Len(ents) : ents[k].Name = name
  THEN [i |-> (CHOOSE k \in 1..Len(ents) :
                 /\ ents[k].Name = name
                 /\ \A m \in 1..(k - 1) : ents[m].Name # name) - 1,
        ok |-> TRUE]
  ELSE [i |-> IF ents = <<>> THEN 0 ELSE Len(ents) - 1, ok |-> FALSE]

\* Len(): the number of entries whose type is not DT_Unknown.
CountUsed(ents) == Cardinality({k \in 1..Len(ents) : ents[k].Type # DT_Unknown})

\* LookUpChild's results.
LookUpChild(ents, name) ==
  LET f == findChild(ents, name)
  IN  [id |-> IF f.ok THEN ents[f.i + 1].Inode ELSE 0, ok |-> f.ok]

\* An Offset that is not the slot's position + 1.
AddChildOffsetSame(index) == index

\* The Offset the deferred function of AddChild gives the slot at index.
AddChildOffset(index) == index + 1

\* Always the end of the slice, used as if no gap were looked for.
AddChildIndexAppend(ents) == Len(ents)

\* The 0-based index AddChild places the entry at: the first entry of type
\* DT_Unknown, else len(entries).
AddChildIndex(ents) ==
  IF \E k \in 1..Len(ents) : ents[k].Type = DT_Unknown
  THEN (CHOOSE k \in 1..Len(ents) :
          /\ ents[k].Type = DT_Unknown
          /\ \A m \in 1..(k - 1) : ents[m].Type # DT_Unknown) - 1
  ELSE Len(ents)

\* inode.entries after AddChild's body and its deferred function.
AddChildEntries(ents, id, name, dt) ==
  LET index == AddChildIndex(ents)
      e == [Inode |-> id, Name |-> name, Type |-> dt,
            Offset |-> AddChildOffset(index)]
  IN  IF index < Len(ents)
      THEN [ents EXCEPT ![index + 1] = e]
      ELSE Append(ents, e)

\* The slot is cut out of the slice and the later entries move down.
RemoveChildCompact(ents, i) ==
  [k \in 1..(Len(ents) - 1) |->
     [(IF k <= i THEN ents[k] ELSE ents[k + 1]) EXCEPT !.Offset = k]]

\* Removing the last slot shortens the slice instead of leaving a hole.
RemoveChildTrimLast(ents, i) ==
  IF i + 1 = Len(ents)
  THEN SubSeq(ents, 1, i)
  ELSE [ents EXCEPT ![i + 1] =
          [Inode |-> 0, Name |-> "", Type |-> DT_Unknown, Offset |-> i + 1]]

\* inode.entries after RemoveChild marks slot i (0-based) as unused.
RemoveChildEntries(ents, i) ==
  [ents EXCEPT ![i + 1] =
     [Inode |-> 0, Name |-> "", Type |-> DT_Unknown, Offset |-> i + 1]]

\* -------------------------------------------------------------- ReadDir
\* fuseutil.AppendDirent: the serialized entry is a header that carries the
\* entry's fields and the name's length, then the name's bytes.
DirentHeaderLen == 2
DirentSize(e) == DirentHeaderLen + Len(e.Name)
WriteDirent(e) ==
  <<[hdr |-> e]>> \o [j \in 1..(DirentSize(e) - 1) |-> [fill |-> j]]
AppendDirent(data, e) == data \o WriteDirent(e)

\* The buffer is returned as it is, longer than size.
ReadDirNoTrim(data, size) == data

\* data[:size]
ReadDirTrim(data, size) == SubSeq(data, 1, size)

\* The loop of ReadDir from index i with data built so far.
RECURSIVE ReadDirLoop(_, _, _, _)
ReadDirLoop(ents, i, size, data) ==
  IF i >= Len(ents) THEN data
  ELSE IF ents[i + 1].Type = DT_Unknown THEN ReadDirLoop(ents, i + 1, size, data)
  ELSE LET appended == AppendDirent(data, ents[i + 1])
       IN  IF Len(appended) > size
           THEN ReadDirTrim(appended, size)
           ELSE ReadDirLoop(ents, i + 1, size, appended)

\* The loop starts one slot after the cursor.
ReadDirSkipFirst(ents, offset, size) == ReadDirLoop(ents, offset + 1, size, <<>>)

ReadDir(ents, offset, size) == ReadDirLoop(ents, offset, size, <<>>)

\* What a reader of the buffer gets: the entries whose serialized form is
\* in it to the last byte, in order; a cut entry at the end is dropped.
RECURSIVE ParseDirents(_)
ParseDirents(data) ==
  IF data = <<>> THEN <<>>
  ELSE LET e == data[1].hdr
       IN  IF DirentSize(e) > Len(data) THEN <<>>
           ELSE <<e>> \o ParseDirents(SubSeq(data, DirentSize(e) + 1, Len(data)))

\* ----------------------------------------------------------------- file
EOF_ == "io.EOF"
NoErr == "nil"

\* The range check is off >= len(contents).
ReadAtEofAtEnd(cont, plen, off) ==
  IF off >= cont.len
  THEN [n |-> 0, err |-> EOF_, data |-> <<>>]
  ELSE LET n == Min(plen, cont.len - off)
       IN  [n |-> n,
            err |-> IF n < plen THEN EOF_ ELSE NoErr,
            data |-> SubSeq(Data(cont), off + 1, off + n)]

\* ReadAt into a destination of plen bytes: n, err and the bytes copied.
ReadAt(cont, plen, off) ==
  IF off > cont.len
  THEN [n |-> 0, err |-> EOF_, data |-> <<>>]
  ELSE LET n == Min(plen, cont.len - off)
       IN  [n |-> n,
            err |-> IF n < plen THEN EOF_ ELSE NoErr,
            data |-> SubSeq(Data(cont), off + 1, off + n)]

\* inode.contents after WriteAt's padding and copy.
WriteAtContents(cont, p, off) ==
  LET newLen == off + Len(p)
      padded == IF cont.len < newLen
                THEN AppendPadding(cont, newLen - cont.len)
                ELSE cont
  IN  CopyAt(padded, off, p)

\* n of copy(inode.contents[off:], p) after the padding.
WriteAtCopied(cont, p, off) ==
  Min(Len(p), Max(cont.len, off + Len(p)) - off)

\* attributes.Size is set to off + len(p) on every write.
WriteAtSizeAlways(size, cont, p, off) == off + Len(p)

\* attributes.Size after WriteAt.
WriteAtSize(size, cont, p, off) ==
  IF cont.len < off + Len(p) THEN off + Len(p) ELSE size

\* Growing re-slices into the old array without writing the zeros.
SetAttributesContentsStale(cont, intSize) ==
  IF intSize <= cont.len
  THEN Reslice(cont, intSize)
  ELSE AppendPaddingStale(cont, intSize - cont.len)

\* A smaller size leaves the slice as it is.
SetAttributesContentsGrowOnly(cont, intSize) ==
  IF intSize <= cont.len
  THEN cont
  ELSE AppendPadding(cont, intSize - cont.len)

\* inode.contents after SetAttributes with a non-nil size.
SetAttributesContents(cont, intSize) ==
  IF intSize <= cont.len
  THEN Reslice(cont, intSize)
  ELSE AppendPadding(cont, intSize - cont.len)

\* An optional (pointer) parameter: {} is nil, {v} points to v.
Opt(S) == {{}} \cup {{v} : v \in S}
Val(o) == CHOOSE v \in o : TRUE

\* A nil mode clears the mode.
SetAttributesModeReset(mode, cur) == IF mode # {} THEN Val(mode) ELSE {}

\* attributes.Mode after SetAttributes.
SetAttributesMode(mode, cur) == IF mode # {} THEN Val(mode) ELSE cur

\* The clock's time is stamped after the explicit mtime and wins.
SetAttributesMtimeNowLast(mtime, t) == t

\* attributes.Mtime after SetAttributes: the clock's time, then *mtime.
SetAttributesMtime(mtime, t) == IF mtime # {} THEN Val(mtime) ELSE t

\* --------------------------------------------------------------- actions
\* InvariantMutex.Unlock: the registered check runs on the state the
\* operation leaves; its panic message, "" when the check passes.
Unlock(attr, ents, cont) == checkInvariants(dir, linkCount, attr, ents, cont)

\* The readdir loop's bookkeeping when the table changes under it.
PgAfter(ents) ==
  IF pg.phase = "paging"
  THEN [pg EXCEPT !.muts = pg.muts + 1,
                  !.clean = FALSE,
                  !.stable = {c \in pg.stable :
                                \E k \in 1..Len(ents) :
                                  /\ k > pg.C
                                  /\ ents[k].Type # DT_Unknown
                                  /\ ents[k].Inode = c.Inode
                                  /\ ents[k].Name = c.Name}]
  ELSE pg

\* The model follows a readdir loop through MaxMuts changes of the table
\* and stops changing the table once the loop has ended.
PgAllows == pg.phase = "idle" \/ (pg.phase = "paging" /\ pg.muts < MaxMuts)

Tick ==
  /\ panicked = ""
  /\ now < MaxClock
  /\ now' = now + 1
  /\ UNCHANGED <<dir, linkCount, attributes, entries, contents, panicked, ctor, abs, last, pg>>

AddChild(id, name, dt) ==
  /\ panicked = ""
  /\ PgAllows
  /\ Len(AddChildEntries(entries, id, name, dt)) <= MaxEntries
  /\ attributes' = [attributes EXCEPT !.Mtime = now]
  /\ entries' = AddChildEntries(entries, id, name, dt)
  /\ panicked' = Unlock(attributes', entries', contents)
  /\ last' = [op |-> "AddChild", id |-> id, name |-> name, dt |-> dt,
              index |-> AddChildIndex(entries)]
  /\ pg' = PgAfter(entries')
  /\ abs' = [names |-> abs.names \cup {name},
             ok |-> abs.ok /\ name \notin abs.names,
             hw |-> Max(abs.hw, CountUsed(entries'))]
  /\ UNCHANGED <<dir, linkCount, contents, now, ctor>>

RemoveChild(name) ==
  /\ panicked = ""
  /\ PgAllows
  /\ attributes' = [attributes EXCEPT !.Mtime = now]
  /\ last' = [op |-> "RemoveChild", name |-> name, i |-> findChild(entries, name).i]
  /\ IF ~dir
     THEN /\ panicked' = "findChild called on non-directory."
          /\ UNCHANGED entries
     ELSE IF ~findChild(entries, name).ok
     THEN /\ panicked' = "Unknown child"
          /\ UNCHANGED entries
     ELSE /\ entries' = RemoveChildEntries(entries, findChild(entries, name).i)
          /\ panicked' = Unlock(attributes', entries', contents)
  /\ pg' = PgAfter(entries')
  /\ abs' = [names |-> abs.names \ {name},
             ok |-> abs.ok /\ name \in abs.names,
             hw |-> Max(abs.hw, CountUsed(entries'))]
  /\ UNCHANGED <<dir, linkCount, contents, now, ctor>>

LenOp ==
  /\ panicked = ""
  /\ last' = [op |-> "Len", n |-> CountUsed(entries)]
  /\ UNCHANGED <<dir, linkCount, attributes, entries, contents, now, panicked, ctor, abs, pg>>

LookUpChildOp(name) ==
  /\ panicked = ""
  /\ IF ~dir
     THEN /\ panicked' = "findChild called on non-directory."
          /\ last' = [op |-> "LookUpChild", name |-> name]
     ELSE /\ panicked' = ""
          /\ last' = [op |-> "LookUpChild", name |-> name,
                      id |-> LookUpChild(entries, name).id,
                      ok |-> LookUpChild(entries, name).ok]
  /\ UNCHANGED <<dir, linkCount, attributes, entries, contents, now, ctor, abs, pg>>

ReadDirOp(offset, size) ==
  /\ panicked = ""
  /\ IF ~dir
     THEN /\ panicked' = "ReadDir called on non-directory."
          /\ last' = [op |-> "ReadDir", offset |-> offset, size |-> size]
     ELSE /\ panicked' = ""
          /\ last' = [op |-> "ReadDir", offset |-> offset, size |-> size,
                      data |-> ReadDir(entries, offset, size)]
  /\ UNCHANGED <<dir, linkCount, attributes, entries, contents, now, ctor, abs, pg>>

ReadAtOp(plen, off) ==
  /\ panicked = ""
  /\ IF dir
     THEN /\ panicked' = "ReadAt called on directory."
          /\ last' = [op |-> "ReadAt", plen |-> plen, off |-> off]
     ELSE /\ panicked' = ""
          /\ last' = [op |-> "ReadAt", plen |-> plen, off |-> off,
                      n |-> ReadAt(contents, plen, off).n,
                      err |-> ReadAt(contents, plen, off).err,
                      data |-> ReadAt(contents, plen, off).data]
  /\ UNCHANGED <<dir, linkCount, attributes, entries, contents, now, ctor, abs, pg>>

WriteAtOp(p, off) ==
  /\ panicked = ""
  /\ off + Len(p) <= MaxLen
  /\ last' = [op |-> "WriteAt", p |-> p, off |-> off, old |-> contents]
  /\ IF dir
     THEN /\ panicked' = "WriteAt called on directory."
          /\ UNCHANGED <<attributes, contents>>
     ELSE /\ contents' = WriteAtContents(contents, p, off)
          /\ attributes' = [attributes EXCEPT
                              !.Mtime = now,
                              !.Size = WriteAtSize(attributes.Size, contents, p, off)]
          /\ panicked' = IF WriteAtCopied(contents, p, off) # Len(p)
                         THEN "Unexpected short copy"
                         ELSE Unlock(attributes', entries, contents')
  /\ UNCHANGED <<dir, linkCount, entries, now, ctor, abs, pg>>

SetAttributes(size, mode, mtime) ==
  /\ panicked = ""
  /\ last' = [op |-> "SetAttributes", size |-> size, mode |-> mode, mtime |-> mtime,
              old |-> contents]
  /\ contents' = IF size # {}
                 THEN SetAttributesContents(contents, Val(size))
                 ELSE contents
  /\ attributes' =
       [Size |-> IF size # {} THEN Val(size) ELSE attributes.Size,
        Mode |-> SetAttributesMode(mode, attributes.Mode),
        Mtime |-> SetAttributesMtime(mtime, now),
        Crtime |-> attributes.Crtime]
  /\ panicked' = Unlock(attributes', entries, contents')
  /\ UNCHANGED <<dir, linkCount, entries, now, ctor, abs, pg>>

\* ------------------------------------------------------ the readdir loop
\* A client lists the directory from cursor C in pages of size bytes: each
\* call resumes at the Offset of the last entry it got whole, and the loop
\* ends at the first page without one.
PageStart(C, size) ==
  /\ panicked = ""
  /\ dir
  /\ pg.phase = "idle"
  /\ pg' = [phase |-> "paging", C |-> C, size |-> size, next |-> C, got |-> <<>>,
            muts |-> 0, clean |-> TRUE,
            stable |-> {[Inode |-> entries[k].Inode, Name |-> entries[k].Name] :
                          k \in {j \in 1..Len(entries) :
                                   j > C /\ entries[j].Type # DT_Unknown}}]
  /\ UNCHANGED <<dir, linkCount, attributes, entries, contents, now, panicked, ctor, abs, last>>

PageNext ==
  /\ panicked = ""
  /\ pg.phase = "paging"
  /\ LET data == ReadDir(entries, pg.next, pg.size)
         whole == ParseDirents(data)
     IN  /\ last' = [op |-> "ReadDir", offset |-> pg.next, size |-> pg.size, data |-> data]
         /\ pg' = IF whole = <<>>
                  THEN [pg EXCEPT !.phase = "done"]
                  ELSE [pg EXCEPT !.got = pg.got \o whole,
                                  !.next = whole[Len(whole)].Offset]
  /\ UNCHANGED <<dir, linkCount, attributes, entries, contents, now, panicked, ctor, abs>>

\* ------------------------------------------------------- specifications
WriteData == UNION {[1..n -> Bytes] : n \in 0..2}
SetModes == {{}, ModePerm, ModePerm \cup ModeDir, ModeSymlink}

AddChildStep == \E c \in Children, dt \in DirentTypes : AddChild(c[1], c[2], dt)
RemoveChildStep == \E name \in Names : RemoveChild(name)
LookUpChildStep == \E name \in Names : LookUpChildOp(name)
ReadDirStep == \E offset \in 0..MaxEntries, size \in 0..MaxBytes : ReadDirOp(offset, size)
ReadAtStep == \E plen \in 0..MaxLen, off \in 0..(MaxLen + 1) : ReadAtOp(plen, off)
WriteAtStep == \E p \in WriteData, off \in 0..MaxLen : WriteAtOp(p, off)
SetAttributesStep ==
  \E size \in Opt(0..MaxLen), mode \in Opt(SetModes), mtime \in Opt(MtimeArgs) :
    SetAttributes(size, mode, mtime)

\* Every operation, on a node of either kind, with the clock running.
Next ==
  \/ Tick
  \/ AddChildStep
  \/ RemoveChildStep
  \/ LenOp
  \/ LookUpChildStep
  \/ ReadDirStep
  \/ ReadAtStep
  \/ WriteAtStep
  \/ SetAttributesStep

Spec == Init /\ [][Next]_vars

\* The operations of the directory entry table.
NextDir ==
  \/ AddChildStep
  \/ RemoveChildStep
  \/ LenOp
  \/ LookUpChildStep
  \/ ReadDirStep

SpecDir == Init /\ [][NextDir]_vars

\* The operations of the content buffer and SetAttributes.
NextFile ==
  \/ ReadAtStep
  \/ WriteAtStep
  \/ SetAttributesStep

SpecFile == Init /\ [][NextFile]_vars

\* The operations that stamp the modification time, with the clock running;
\* the writes are one byte at offset 0 or 1 and the sizes set are 0 and 2.
WriteAtTimeStep == \E off \in 0..1 : WriteAtOp(<<1>>, off)
SetAttributesTimeStep ==
  \E size \in Opt({0, 2}), mode \in Opt({ModePerm, ModeSymlink}), mtime \in Opt(MtimeArgs) :
    SetAttributes(size, mode, mtime)

NextTime ==
  \/ Tick
  \/ AddChildStep
  \/ RemoveChildStep
  \/ WriteAtTimeStep
  \/ SetAttributesTimeStep

SpecTime == Init /\ [][NextTime]_vars

\* The operations that require one kind of node, on a node of either kind.
NextKinds ==
  \/ AddChildStep
  \/ RemoveChildStep
  \/ LookUpChildStep
  \/ ReadDirStep
  \/ ReadAtStep
  \/ WriteAtStep

SpecKinds == Init /\ [][NextKinds]_vars

\* A directory that is listed in pages while children are added and removed.
\* Every page size holds the longest serialized entry (a name of one byte).
PageSizes == (DirentHeaderLen + 1)..MaxBytes
PageStartStep == \E C \in 0..MaxEntries, size \in PageSizes : PageStart(C, size)

NextPaging ==
  \/ AddChildStep
  \/ RemoveChildStep
  \/ PageStartStep
  \/ PageNext

SpecPaging == Init /\ [][NextPaging]_vars

\* ======================================================== directory claims
Used(ents) == {k \in 1..Len(ents) : ents[k].Type # DT_Unknown}
Holes(ents) == {k \in 1..Len(ents) : ents[k].Type = DT_Unknown}
Lowest(S) == CHOOSE k \in S : \A j \in S : k <= j

\* C1: in a directory every slot of the entry sequence, used or a hole, has
\* its cursor equal to its 0-based index + 1, whatever AddChild and
\* RemoveChild calls came before.
C1_CursorIsPosition ==
  dir => \A k \in 1..Len(entries) : entries[k].Offset = k

\* An AddChild has reused slot 0 of a full-length table that still has a hole.
C1_Witness ==
  /\ dir /\ panicked = ""
  /\ last.op = "AddChild" /\ last.index = 0
  /\ Len(entries) = MaxEntries
  /\ Holes(entries) # {}

\* C2 as stated: after an AddChild on a directory with a type other than
\* Unknown no two used entries share a name, and the check at release passes
\* on the names.
C2_AddChildKeepsNamesUnique ==
  (dir /\ last.op = "AddChild" /\ last.dt # DT_Unknown)
    => (~HasDuplicate(entries) /\ panicked # "Duplicate name")

\* C4 as stated: LookUpChild finds a name exactly when a used entry has it,
\* and then returns the id of the first such entry.
C4_LookUpFindsUsedOnly ==
  (dir /\ last.op = "LookUpChild" /\ panicked = "")
    => LET hits == {k \in Used(entries) : entries[k].Name = last.name}
       IN  /\ last.ok <=> (hits # {})
           /\ last.ok => last.id = entries[Lowest(hits)].Inode

\* C5: AddChild puts the entry in the lowest-index hole when there is one and
\* appends a slot only when there is none; RemoveChild keeps every slot; so
\* the length of the entry sequence never decreases.
C5_LowestHoleFirst ==
  [][/\ Len(entries') >= Len(entries)
     /\ last'.op = "RemoveChild" => Len(entries') = Len(entries)
     /\ last'.op = "AddChild" =>
          LET e == [Inode |-> last'.id, Name |-> last'.name, Type |-> last'.dt]
              at(k) == /\ entries'[k].Inode = e.Inode
                       /\ entries'[k].Name = e.Name
                       /\ entries'[k].Type = e.Type
          IN  IF Holes(entries) # {}
              THEN /\ Len(entries') = Len(entries)
                   /\ at(Lowest(Holes(entries)))
                   /\ \A k \in 1..Len(entries) :
                        k # Lowest(Holes(entries)) => entries'[k] = entries[k]
              ELSE /\ Len(entries') = Len(entries) + 1
                   /\ at(Len(entries'))
                   /\ SubSeq(entries', 1, Len(entries)) = entries]_vars

\* An AddChild has taken slot 0 while a later slot is a hole too.
C5_Witness ==
  /\ dir /\ panicked = ""
  /\ last.op = "AddChild" /\ last.index = 0
  /\ \E k \in Holes(entries) : k > 1

\* The serialized used entries of ents from 0-based index offset on.
RECURSIVE Listing(_, _)
Listing(ents, offset) ==
  IF offset >= Len(ents) THEN <<>>
  ELSE (IF ents[offset + 1].Type = DT_Unknown THEN <<>> ELSE WriteDirent(ents[offset + 1]))
       \o Listing(ents, offset + 1)

RECURSIVE Serialize(_)
Serialize(es) == IF es = <<>> THEN <<>> ELSE WriteDirent(Head(es)) \o Serialize(Tail(es))

\* C6 as stated: the buffer ReadDir returns is at most size bytes long and is
\* a concatenation of whole serialized entries.
C6_WholeEntriesOnly ==
  (dir /\ last.op = "ReadDir" /\ panicked = "")
    => /\ Len(last.data) <= last.size
       /\ last.data = Serialize(ParseDirents(last.data))

\* C6 amended: the buffer is the first min(size, total) bytes of the
\* serialized used entries from the cursor on: at most size bytes, whole
\* entries in order, and then possibly the first bytes of one more entry.
C6_TrimmedPrefix ==
  (dir /\ last.op = "ReadDir" /\ panicked = "")
    => LET full == Listing(entries, last.offset)
       IN  /\ Len(last.data) <= last.size
           /\ Len(last.data) = Min(last.size, Len(full))
           /\ last.data = SubSeq(full, 1, Len(last.data))

\* A ReadDir has returned one whole entry and a cut one.
C6_Witness ==
  /\ dir /\ last.op = "ReadDir" /\ panicked = ""
  /\ Len(ParseDirents(last.data)) >= 1
  /\ last.data # Serialize(ParseDirents(last.data))

\* ============================================================ file claims
\* The pre-state is a file node on which checkInvariants passes.
ValidFile == ~dir /\ Unlock(attributes, entries, contents) = ""

\* C7: after WriteAt(p, off) on a file the size is max(old size, off + len(p)),
\* a ReadAt of len(p) bytes at off returns exactly p, every byte between the
\* old end and off is zero, and every old byte outside [off, off + len(p))
\* is unchanged.
C7_WriteAtEffect ==
  [][(ValidFile /\ last'.op = "WriteAt") =>
       LET p == last'.p
           off == last'.off
           old == Data(contents)
           new == Data(contents')
       IN  /\ attributes'.Size = Max(attributes.Size, off + Len(p))
           /\ Len(new) = Max(Len(old), off + Len(p))
           /\ ReadAt(contents', Len(p), off).n = Len(p)
           /\ ReadAt(contents', Len(p), off).data = p
           /\ \A j \in 1..Len(new) :
                /\ (j > Len(old) /\ j <= off) => new[j] = 0
                /\ (j <= Len(old) /\ (j <= off \/ j > off + Len(p))) => new[j] = old[j]]_vars

\* A WriteAt past the old end of a file that had non-zero bytes, some of them
\* once stored where the gap now is.
C7_Witness ==
  /\ ~dir /\ panicked = ""
  /\ last.op = "WriteAt"
  /\ Len(last.p) >= 1
  /\ last.off > last.old.len
  /\ last.old.len >= 1
  /\ \E j \in (last.old.len + 1)..last.off :
       j <= Len(last.old.arr) /\ last.old.arr[j] # 0

\* C8: on a file constructed with size 0, attributes.Size equals the length of
\* the contents in every state WriteAt and SetAttributes calls lead to.
C8_SizeIsLength ==
  (~dir /\ ctor.Size = 0) => attributes.Size = contents.len

\* A SetAttributes has cut a file to a shorter, non-empty length.
C8_Witness ==
  /\ ~dir /\ ctor.Size = 0 /\ panicked = ""
  /\ last.op = "SetAttributes" /\ last.size # {}
  /\ contents.len >= 1
  /\ contents.len < last.old.len

\* C9: SetAttributes with a smaller size leaves exactly the first size bytes;
\* with a larger size it keeps the old bytes and every byte from the old
\* length on is zero, whatever the backing array held there before.
C9_TruncateAndZeroExtend ==
  [][(~dir /\ last'.op = "SetAttributes" /\ last'.size # {}) =>
       LET n == Val(last'.size)
           old == Data(contents)
           new == Data(contents')
       IN  /\ Len(new) = n
           /\ \A j \in 1..n :
                new[j] = IF j <= Len(old) THEN old[j] ELSE 0]_vars

\* A SetAttributes has grown a file over bytes that were written non-zero
\* and then truncated away.
C9_Witness ==
  /\ ~dir /\ panicked = ""
  /\ last.op = "SetAttributes" /\ last.size # {}
  /\ last.old.len >= 1
  /\ Val(last.size) > last.old.len
  /\ \E j \in (last.old.len + 1)..Val(last.size) :
       j <= Len(last.old.arr) /\ last.old.arr[j] # 0

\* C10: ReadAt on a file never panics; past the end of the contents it copies
\* nothing and returns io.EOF; otherwise it copies the
\* min(len(p), len(contents) - off) bytes at off and returns io.EOF exactly
\* when that is fewer than len(p).
C10_ReadAtResult ==
  (~dir /\ last.op = "ReadAt")
    => /\ panicked = ""
       /\ Len(last.data) = last.n
       /\ IF last.off > contents.len
          THEN last.n = 0 /\ last.err = EOF_
          ELSE /\ last.n = Min(last.plen, contents.len - last.off)
               /\ \A j \in 1..last.n : last.data[j] = contents.arr[last.off + j]
               /\ (last.err = EOF_) <=> (last.n < last.plen)

\* A short read: some bytes copied, fewer than asked for.
C10_Witness ==
  /\ ~dir /\ last.op = "ReadAt" /\ panicked = ""
  /\ last.n >= 1 /\ last.n < last.plen /\ last.off >= 1

\* ========================================================== paging claims
\* A child as a readdir loop's caller knows it: its id and its name.
Child(e) == [Inode |-> e.Inode, Name |-> e.Name]

\* C3: a readdir loop from cursor C with pages that hold at least one entry,
\* each resumed at the cursor of the last whole entry of the page before,
\* lists exactly what one unbounded ReadDir(C) lists when the table does not
\* change; and when AddChild / RemoveChild calls come between the pages, every
\* child at index >= C that is there from the start to the end of the loop is
\* listed exactly once.
C3_PagingListsAll ==
  pg.phase = "done" =>
    /\ pg.clean =>
         pg.got = ParseDirents(ReadDir(entries, pg.C, Len(Listing(entries, 0))))
    /\ \A c \in pg.stable :
         Cardinality({k \in 1..Len(pg.got) : Child(pg.got[k]) = c}) = 1

\* A loop of several pages has ended after the table changed under it, with
\* children that were there throughout.
C3_Witness ==
  /\ pg.phase = "done" /\ ~pg.clean
  /\ pg.stable # {}
  /\ Len(pg.got) > Cardinality(pg.stable)
  /\ Len(Serialize(pg.got)) > pg.size

C12_RemoveUnknownHalts ==
  [][(/\ dir
      /\ last'.op = "RemoveChild"
      /\ \A k \in Used(entries) : entries[k].Name # last'.name)
       => panicked' # ""]_vars

WrongKindOps == {"AddChild", "RemoveChild", "LookUpChild", "ReadDir"}
WrongKindDirOps == {"ReadAt", "WriteAt"}

\* C13: an operation called on a node of the wrong kind (AddChild,
\* RemoveChild, LookUpChild or ReadDir on a file; ReadAt or WriteAt on a
\* directory) ends in a panic, in the method or at the latest in the check
\* at the release of the lock, and never completes.
C13_WrongKindHalts ==
  /\ (~dir /\ last.op \in WrongKindOps) => panicked # ""
  /\ (dir /\ last.op \in WrongKindDirOps) => panicked # ""
  /\ (~dir /\ last.op \in WrongKindOps \ {"AddChild"}) =>
       (entries = <<>> /\ panicked \in {"findChild called on non-directory.",
                                        "ReadDir called on non-directory."})
  /\ (dir /\ last.op \in WrongKindDirOps) =>
       (contents = NilBytes /\ panicked \in {"ReadAt called on directory.",
                                             "WriteAt called on directory."})

\* AddChild on a file has stored an entry and is stopped only by the check
\* at the release.
C13_Witness ==
  /\ ~dir
  /\ last.op = "AddChild"
  /\ entries # <<>>
  /\ panicked = "Non-nil entries in a file."

\* The attributes checkInvariants accepts for a node without contents.
ConsistentAttrs(attrs) ==
  attrs.Size = 0 /\ attrs.Mode \subseteq (ModePerm \cup ModeDir)

HoldsWholeDirectory(size) == size >= Len(Listing(entries, 0))

\* C16: ReadDir(offset, size) with a size that holds the whole directory
\* returns exactly the used entries at 0-based index >= offset, in increasing
\* index order, each with its own Offset (index + 1), every hole skipped;
\* the listing is empty when offset is at or beyond the length of entries.
C16_LargeReadListsUsed ==
  (dir /\ panicked = "" /\ last.op = "ReadDir" /\ HoldsWholeDirectory(last.size)) =>
    LET got == ParseDirents(last.data)
        want == {k \in Used(entries) : k > last.offset}
    IN  /\ last.data = Serialize(got)
        /\ Len(got) = Cardinality(want)
        /\ \A j \in 1..Len(got) :
             /\ got[j].Offset \in want
             /\ got[j] = entries[got[j].Offset]
        /\ \A j \in 1..(Len(got) - 1) : got[j].Offset < got[j + 1].Offset
        /\ last.offset >= Len(entries) => last.data = <<>>

\* A ReadDir from a cursor past a used slot has listed two entries with a hole
\* between them.
C16_Witness ==
  /\ dir /\ panicked = "" /\ last.op = "ReadDir"
  /\ HoldsWholeDirectory(last.size)
  /\ Len(ParseDirents(last.data)) = 2
  /\ ParseDirents(last.data)[1].Offset + 1 < ParseDirents(last.data)[2].Offset

\* ================================================== abstract-set claims
\* C17: after AddChild calls with names not present and RemoveChild calls
\* with names present, Len() is the number of names added and not since
\* removed, whatever the number of holes.
C17_CountIsAbstractSize ==
  (dir /\ abs.ok /\ panicked = "" /\ last.op = "Len") =>
    last.n = Cardinality(abs.names)

\* ========================================================= time claims
\* C18: AddChild, RemoveChild, WriteAt and SetAttributes without an mtime
\* leave Mtime equal to the clock's time at the call; SetAttributes with an
\* mtime leaves Mtime equal to that mtime; no step changes Crtime.
C18_MtimeStamp ==
  [][/\ attributes'.Crtime = attributes.Crtime
     /\ (now' = now /\ panicked' = "") =>
          /\ last'.op \in {"AddChild", "RemoveChild", "WriteAt"} =>
               attributes'.Mtime = now
          /\ (last'.op = "SetAttributes" /\ last'.mtime = {}) =>
               attributes'.Mtime = now
          /\ (last'.op = "SetAttributes" /\ last'.mtime # {}) =>
               attributes'.Mtime = Val(last'.mtime)]_vars

\* After the clock has advanced, a SetAttributes with an mtime has completed:
\* Mtime is that value, neither the clock's time nor the creation time.
C18_Witness ==
  /\ panicked = ""
  /\ last.op = "SetAttributes" /\ last.mtime # {}
  /\ now > attributes.Crtime
  /\ attributes.Mtime = Val(last.mtime)
  /\ attributes.Mtime # now

\* ======================================================== frame claims
\* The slots (1-based) whose entry differs between two tables; a slot that
\* exists in one only counts as differing.
ChangedSlots(old, new) ==
  {k \in 1..Max(Len(old), Len(new)) :
     k > Len(old) \/ k > Len(new) \/ old[k] # new[k]}

\* C19: a completed AddChild or RemoveChild changes exactly one slot of
\* entries and leaves every other slot's name, inode, type and offset as
\* they were; the slot RemoveChild turns into a hole keeps its offset and
\* has type DT_Unknown, the empty name and inode 0; neither changes the
\* node's size, contents, mode, link count or kind.
C19_OneSlotChanges ==
  [][(dir /\ panicked' = "" /\ last'.op \in {"AddChild", "RemoveChild"}) =>
       /\ Cardinality(ChangedSlots(entries, entries')) = 1
       /\ last'.op = "RemoveChild" =>
            /\ Len(entries') = Len(entries)
            /\ \A k \in ChangedSlots(entries, entries') :
                 entries'[k] = [Inode |-> 0, Name |-> "", Type |-> DT_Unknown,
                                Offset |-> entries[k].Offset]
       /\ attributes'.Size = attributes.Size
       /\ attributes'.Mode = attributes.Mode
       /\ contents' = contents
       /\ linkCount' = linkCount
       /\ dir' = dir]_vars

\* C20: after AddChild calls with names not present and RemoveChild calls
\* with names present on a directory that started empty, the length of
\* entries is the largest value Len() has had, so there are holes exactly
\* while Len() is below that mark.
C20_LengthIsHighWaterMark ==
  (dir /\ abs.ok) =>
    /\ Len(entries) = abs.hw
    /\ (Holes(entries) # {}) <=> (CountUsed(entries) < abs.hw)

\* A table that reached the bound has two holes, and the last call refilled
\* none of them.
C20_Witness ==
  /\ dir /\ abs.ok /\ panicked = ""
  /\ last.op = "RemoveChild"
  /\ abs.hw = MaxEntries
  /\ Cardinality(Holes(entries)) = 2

====
